---- MODULE Spec2Model ----
(***************************************************************************)
(* Model of the likelihood kernels of ipcoal:                              *)
(*   src/ipcoal/msc/src/likelihood.py  (MSC kernels, two Ne conventions)   *)
(*   src/ipcoal/smc/src/likelihood.py  (_update_neffs, rate dispatch and   *)
(*                                      the waiting-distance kernel)       *)
(*                                                                         *)
(* Numbers.  The kernels work on float64.  A positive float is modelled by *)
(* its natural logarithm in thousandths (milli-nats), so that a product is *)
(* a sum, log() reads the stored logarithm and exp() stores its argument;  *)
(* a product or an exp() whose logarithm falls below that of the smallest  *)
(* positive float64 is the float 0.  Sums of logarithms are extended reals *)
(* (finite, +inf, -inf, nan).                                              *)
(***************************************************************************)
EXTENDS Integers, Sequences, FiniteSets, TLC

VARIABLES
    emb,        \* embedding array: genealogy index 0..n-1 -> sequence of rows
    enc,        \* auxiliary encoding array, one entry per genealogy
    barr,       \* auxiliary branch-length array, one entry per genealogy
    sarr,       \* summed branch length of every genealogy
    rarr,       \* auxiliary relationship array, one entry per genealogy
    call,       \* the most recent call: its name and arguments
    provider,   \* the rate provider invoked by the most recent call, with its arguments
    ret,        \* what the most recent call returned or raised
    logliks_arr, \* the kernel's array logliks of per-genealogy results while its loop runs
    iter,       \* the iterations of the running prange loop: position and local loglik
    order       \* the iterations of the running loop in the order they stored

vars == <<emb, enc, barr, sarr, rarr, call, provider, ret, logliks_arr, iter, order>>

----------------------------------------------------------------------------
(* Bounds of the model.                                                    *)

MaxTrees == 2
MaxRows == 3

(* Value domains of the bounded inputs. *)
NeVals == {1, 2}
EdgeVals == {1, 2}

----------------------------------------------------------------------------
(* float64 values                                                          *)

\* thousandths of ln(n), rounded, n = 1..24
LnTable ==
    <<0, 693, 1099, 1386, 1609, 1792, 1946, 2079, 2197, 2303, 2398, 2485,
      2565, 2639, 2708, 2773, 2833, 2890, 2944, 2996, 3045, 3091, 3135, 3178>>

LnMilli(n) == LnTable[n]

\* ln of the smallest positive float64 (5e-324) is -744.44; exp(x) is 0.0 below -745.13
MinLog == 0 - 745133

\* entries of column 5: a finite length or np.inf
Finite(v) == [inf |-> FALSE, v |-> v]
Infinite == [inf |-> TRUE, v |-> 0]

\* np.isinf
isinf(d) == d.inf

\* floats of the probability computation: zero, a positive number with its
\* logarithm, or nan
Zero == [k |-> "zero", lg |-> 0]
NaNf == [k |-> "nan", lg |-> 0]
Pos(lg) == IF lg < MinLog THEN Zero ELSE [k |-> "pos", lg |-> lg]
One == Pos(0)

\* a * b
FMul(a, b) ==
    IF a.k = "nan" \/ b.k = "nan" THEN NaNf
    ELSE IF a.k = "zero" \/ b.k = "zero" THEN Zero
    ELSE Pos(a.lg + b.lg)

\* positive rationals n/d (rate, lambda_), d > 0
Rat(n, d) == [n |-> n, d |-> d]

\* 1 / x for a positive number x
Recip(x) == Rat(1, x)

\* q * m for a non-negative integer m
RatTimes(q, m) == Rat(q.n * m, q.d)

\* a positive rational as a float
RatFloat(q) == IF q.n = 0 THEN Zero ELSE Pos(LnMilli(q.n) - LnMilli(q.d))

\* np.exp(-lambda_ * dist): lambda_ >= 0 a rational, dist a column-5 entry.
\* 0 * inf is nan in float64 and exp(-inf) is 0.
ExpNeg(lambda_, dist) ==
    IF isinf(dist)
    THEN (IF lambda_.n = 0 THEN NaNf ELSE Zero)
    ELSE Pos(0 - ((1000 * lambda_.n * dist.v) \div lambda_.d))

\* extended reals: sums of logarithms
Fin(v) == [k |-> "fin", v |-> v]
PosInf == [k |-> "+inf", v |-> 0]
NegInf == [k |-> "-inf", v |-> 0]
NaN == [k |-> "nan", v |-> 0]

XAdd(a, b) ==
    IF a.k = "nan" \/ b.k = "nan" THEN NaN
    ELSE IF a.k = "fin" /\ b.k = "fin" THEN Fin(a.v + b.v)
    ELSE IF a.k = "fin" THEN b
    ELSE IF b.k = "fin" THEN a
    ELSE IF a.k = b.k THEN a
    ELSE NaN

XNeg(a) ==
    IF a.k = "fin" THEN Fin(0 - a.v)
    ELSE IF a.k = "+inf" THEN NegInf
    ELSE IF a.k = "-inf" THEN PosInf
    ELSE NaN

\* prob > 0
GtZero(p) == p.k = "pos"

\* np.log(prob) for prob > 0
Log(p) == Fin(p.lg)

----------------------------------------------------------------------------
(* The MSC kernels                                                         *)

\* a row of the embedding array: columns 2 (species interval), 3 (Ne),
\* 4 (number of lineages), 5 (length)
Row(f2, f3, f4, f5) == [f2 |-> f2, f3 |-> f3, f4 |-> f4, f5 |-> f5]

\* garr[garr[:, 2] == sval]
SelectInterval(garr, sval) == SelectSeq(garr, LAMBDA row : row.f2 = sval)

\* npairs = (nedges * (nedges - 1)) / 2
Npairs(nedges) == (nedges * (nedges - 1)) \div 2

\* a kernel that reads column 3 as if it already held 2Ne
RateNeUndoubled(iarr) == Recip(iarr[1].f3)

\* rate = 1 / (2 * iarr[0, 3])
RateNe(iarr) == Recip(2 * iarr[1].f3)

\* rate = 1 / iarr[0, 3]
Rate2Ne(iarr) == Recip(iarr[1].f3)

\* the one line in which the two kernels differ
Rate(kernel, iarr) == IF kernel = "array" THEN RateNe(iarr) ELSE Rate2Ne(iarr)

\* the textbook density lambda_ * np.exp(-lambda_ * dist) in place of the
\* kernel's factor
CoalFactorLambda(rate, row) ==
    FMul(RatFloat(RatTimes(rate, Npairs(row.f4))),
         ExpNeg(RatTimes(rate, Npairs(row.f4)), row.f5))

\* rate * np.exp(-lambda_ * dist) of one row before the last
CoalFactor(rate, row) ==
    FMul(RatFloat(rate), ExpNeg(RatTimes(rate, Npairs(row.f4)), row.f5))

\* the loop over range(iarr.shape[0] - 1), from prob = 1.
RECURSIVE CoalLoop(_, _, _)
CoalLoop(rate, iarr, nrows) ==
    IF nrows = 0 THEN One
    ELSE FMul(CoalLoop(rate, iarr, nrows - 1), CoalFactor(rate, iarr[nrows]))

\* the factor of the last row of the interval
LastFactor(rate, row) ==
    IF ~isinf(row.f5)
    THEN ExpNeg(RatTimes(rate, Npairs(row.f4)), row.f5)
    ELSE One

\* prob of all events of one species interval
IntervalProb(rate, iarr) ==
    FMul(CoalLoop(rate, iarr, Len(iarr) - 1), LastFactor(rate, iarr[Len(iarr)]))

\* what one interval adds to loglik
StoreLoglik(prob) == IF GtZero(prob) THEN Log(prob) ELSE PosInf

\* loglik of one genealogy: the loop over range(nspecies + 1)
RECURSIVE GenealogyLoglik(_, _, _)
GenealogyLoglik(kernel, garr, nintervals) ==
    IF nintervals = 0 THEN Fin(0)
    ELSE LET iarr == SelectInterval(garr, nintervals - 1)
         IN  XAdd(GenealogyLoglik(kernel, garr, nintervals - 1),
                  StoreLoglik(IntervalProb(Rate(kernel, iarr), iarr)))

\* ntrees = embedding.shape[0]
Ntrees(embedding) == Cardinality(DOMAIN embedding)

\* nspecies = int(embedding[0, -1, 2])
Nspecies(embedding) == embedding[0][Len(embedding[0])].f2

\* logliks.sum() over the first n slots
RECURSIVE SumLogliks(_, _)
SumLogliks(logliks, n) ==
    IF n = 0 THEN Fin(0) ELSE XAdd(SumLogliks(logliks, n - 1), logliks[n - 1])

\* the body shared by the two kernels: one slot of logliks per genealogy,
\* then -logliks.sum()
MscLoglik(kernel, embedding) ==
    LET ntrees == Ntrees(embedding)
        nspecies == Nspecies(embedding)
        logliks == [gidx \in 0..(ntrees - 1) |->
                       GenealogyLoglik(kernel, embedding[gidx], nspecies + 1)]
    IN  XNeg(SumLogliks(logliks, ntrees))

_get_msc_loglik_from_embedding_array(embedding) == MscLoglik("array", embedding)

_get_msc_loglik_from_embedding(embedding) == MscLoglik("embedding", embedding)

----------------------------------------------------------------------------
(* The population-size update                                              *)

\* len(set(popsizes))
DistinctValues(popsizes) == Cardinality({popsizes[i] : i \in DOMAIN popsizes})

\* a scalar assignment that reaches the first genealogy only
BroadcastFirst(array, value) ==
    [g \in DOMAIN array |->
        [i \in DOMAIN array[g] |->
            IF g = 0 THEN [array[g][i] EXCEPT !.f3 = value] ELSE array[g][i]]]

\* emb[:, :, 3] = value
Broadcast(array, value) ==
    [g \in DOMAIN array |->
        [i \in DOMAIN array[g] |-> [array[g][i] EXCEPT !.f3 = value]]]

\* an assignment that forgets the mask
AssignBranchUnmasked(array, idx, popsize) ==
    [g \in DOMAIN array |->
        [i \in DOMAIN array[g] |-> [array[g][i] EXCEPT !.f3 = popsize]]]

\* mask = emb[:, :, 2] == idx; emb[mask, 3] = popsize
AssignBranch(array, idx, popsize) ==
    [g \in DOMAIN array |->
        [i \in DOMAIN array[g] |->
            IF array[g][i].f2 = idx
            THEN [array[g][i] EXCEPT !.f3 = popsize]
            ELSE array[g][i]]]

\* the first k rounds of: for idx, popsize in enumerate(popsizes)
RECURSIVE AssignLoop(_, _, _)
AssignLoop(array, popsizes, k) ==
    IF k = 0 THEN array
    ELSE AssignBranch(AssignLoop(array, popsizes, k - 1), k - 1, popsizes[k])

\* an update that stores 2Ne, as the docstring of _update_neffs words it
_update_neffs_as_2Ne(array, popsizes) ==
    IF DistinctValues(popsizes) = 1
    THEN Broadcast(array, 2 * popsizes[1])
    ELSE AssignLoop(array, [i \in DOMAIN popsizes |-> 2 * popsizes[i]], Len(popsizes))

\* the array after _update_neffs(emb, popsizes)
_update_neffs(array, popsizes) ==
    IF DistinctValues(popsizes) = 1
    THEN Broadcast(array, popsizes[1])
    ELSE AssignLoop(array, popsizes, Len(popsizes))

----------------------------------------------------------------------------
(* Rate providers and the waiting-distance kernel.  One-dimensional arrays *)
(* (rates, lengths, idxs) are sequences: Python index k is position k + 1. *)

\* an optional idxs argument
NoIdxs == [given |-> FALSE, v |-> <<>>]
Idxs(v) == [given |-> TRUE, v |-> v]

\* np.arange(n)
arange(n) == [k \in 1..n |-> k - 1]

\* recombination_rate * sarr: idxs arrives in **kwargs and is not read
get_recomb_event_lambdas(sarr_, recombination_rate, idxs) ==
    [k \in 1..Cardinality(DOMAIN sarr_) |-> recombination_rate * sarr_[k - 1]]

\* the tree-change provider of ipcoal.smc.src.ms_smc_tree_prob: one rate per
\* selected genealogy, from its branch lengths
get_tree_changed_lambdas(barr_, recombination_rate, idxs) ==
    [k \in 1..Len(idxs) |-> recombination_rate * barr_[idxs[k]]]

\* the topology-change provider of ipcoal.smc.src.ms_smc_topo_prob: one rate
\* per selected genealogy, from its relationship array
get_topo_changed_lambdas(rarr_, recombination_rate, idxs) ==
    [k \in 1..Len(idxs) |-> recombination_rate * rarr_[idxs[k]]]

\* the if / elif / else over event_type
RateFunction(event_type) ==
    IF event_type = 0 THEN "get_recomb_event_lambdas"
    ELSE IF event_type = 1 THEN "get_tree_changed_lambdas"
    ELSE "get_topo_changed_lambdas"

\* rates = rate_function(emb=..., enc=..., barr=..., sarr=..., rarr=..., ...)
CallProvider(name, barr_, sarr_, rarr_, recombination_rate, idxs) ==
    IF name = "get_recomb_event_lambdas"
    THEN get_recomb_event_lambdas(sarr_, recombination_rate, idxs)
    ELSE IF name = "get_tree_changed_lambdas"
    THEN get_tree_changed_lambdas(barr_, recombination_rate, idxs)
    ELSE get_topo_changed_lambdas(rarr_, recombination_rate, idxs)

\* numpy broadcasting of two one-dimensional shapes
Broadcastable(m, n) == m = n \/ m = 1 \/ n = 1
BroadcastLen(m, n) == IF m = 1 THEN n ELSE m
At(array, k) == IF Len(array) = 1 THEN array[1] ELSE array[k]

\* a log-density that adds the decay term instead of subtracting it
ExponLogpdfSign(scale, x) ==
    IF x < 0 THEN NegInf
    ELSE Fin(((1000 * x * scale.d) \div scale.n)
               - (LnMilli(scale.n) - LnMilli(scale.d)))

\* expon.logpdf of one x >= 0 with scale = 1 / rate: -(x / scale) - log(scale)
ExponLogpdf(scale, x) ==
    IF x < 0 THEN NegInf
    ELSE Fin(0 - ((1000 * x * scale.d) \div scale.n)
               - (LnMilli(scale.n) - LnMilli(scale.d)))

\* np.sum over the first n entries
RECURSIVE SumSeq(_, _)
SumSeq(xs, n) == IF n = 0 THEN Fin(0) ELSE XAdd(SumSeq(xs, n - 1), xs[n])

\* -np.sum(stats.expon.logpdf(scale=1 / rates, x=lengths)), or the error
\* numpy raises for shapes it cannot broadcast
NegSumLogpdf(rates, lengths) ==
    IF ~Broadcastable(Len(rates), Len(lengths))
    THEN [status |-> "error", value |-> "ValueError"]
    ELSE LET n == BroadcastLen(Len(rates), Len(lengths))
             logliks == [k \in 1..n |->
                            ExponLogpdf(Recip(At(rates, k)), At(lengths, k))]
         IN  [status |-> "ok", value |-> XNeg(SumSeq(logliks, n))]

\* idxs as the kernel passes it on: np.arange(embedding.emb.shape[0]) for None
SelectedIdxs(array, idxs) == IF idxs.given THEN idxs.v ELSE arange(Ntrees(array))

\* the provider handed the summed-length array in place of the branch-length array
ProviderCallSwapped(array, enc_, barr_, sarr_, rarr_, recombination_rate, event_type, idxs) ==
    LET name == RateFunction(event_type)
        sel == SelectedIdxs(array, idxs)
    IN  [name |-> name, emb |-> array, enc |-> enc_, barr |-> sarr_,
         sarr |-> sarr_, rarr |-> rarr_,
         recombination_rate |-> recombination_rate, idxs |-> sel,
         rates |-> CallProvider(name, sarr_, sarr_, rarr_, recombination_rate, sel)]

\* the provider get_ms_smc_loglik_from_embedding calls, with what it receives
\* and returns
ProviderCall(array, enc_, barr_, sarr_, rarr_, recombination_rate, event_type, idxs) ==
    LET name == RateFunction(event_type)
        sel == SelectedIdxs(array, idxs)
    IN  [name |-> name, emb |-> array, enc |-> enc_, barr |-> barr_,
         sarr |-> sarr_, rarr |-> rarr_,
         recombination_rate |-> recombination_rate, idxs |-> sel,
         rates |-> CallProvider(name, barr_, sarr_, rarr_, recombination_rate, sel)]

\* the lengths get_ms_smc_loglik accepts: assert len(lengths) == len(genealogies)
SameSize(lengths, ngenealogies) == Len(lengths) = ngenealogies

----------------------------------------------------------------------------
(* Embeddings the builder can hand over (section 3 of the data contract)   *)

\* column 2 of one genealogy: non-decreasing from 0 to S, every interval present
Patterns(R, S) ==
    {p \in [1..R -> 0..S] :
        /\ p[1] = 0
        /\ p[R] = S
        /\ \A i \in 1..(R - 1) : p[i + 1] - p[i] \in {0, 1}}

\* column 4: one lineage fewer after every row inside an interval, the same
\* number across an interval boundary
Edges(p, R, last) ==
    [i \in 1..R |-> last + Cardinality({j \in i..(R - 1) : p[j] = p[j + 1]})]

\* column 5 of the whole array: every length is 1 generation, except that the
\* terminal rows of the genealogies in `unbounded` carry np.inf and that the
\* row `long`, a <<genealogy, row>> pair before the terminal row (or <<>> for
\* none), is long enough for its decay factor to underflow
LongDist == 8000
Dists(n, R, unbounded, long) ==
    [g \in 0..(n - 1) |->
        [i \in 1..R |->
            IF i = R /\ g \in unbounded THEN Infinite
            ELSE IF long = <<g, i>> THEN Finite(LongDist)
            ELSE Finite(1)]]

LongRows(n, R) == {<<>>} \cup ((0..(n - 1)) \X (1..(R - 1)))

\* one genealogy: its rows from columns 2, 3 (Ne of the species interval), 4, 5
Genealogy(p, ne, edges, d) ==
    [i \in DOMAIN p |-> Row(p[i], ne[p[i]], edges[i], d[i])]

\* the array of n genealogies of R rows each with column 2 = p
Embedding(n, R, p, last, v, d) ==
    [g \in 0..(n - 1) |->
        Genealogy(p, [s \in 0..p[R] |-> v], Edges(p, R, last), d[g])]

\* emb is an array the builder can hand over
BuiltEmbedding ==
    \E n \in 1..MaxTrees :
    \E p \in UNION {Patterns(MaxRows, S) : S \in 0..(MaxRows - 1)} :
    \E last \in EdgeVals, v \in NeVals :
    \E unbounded \in SUBSET (0..(n - 1)), long \in LongRows(n, MaxRows) :
        emb = Embedding(n, MaxRows, p, last, v, Dists(n, MaxRows, unbounded, long))

None == [k |-> "None"]
NoCall == [op |-> "none"]
NoProvider == [name |-> "none"]
NoReturn == [status |-> "none", value |-> None]

----------------------------------------------------------------------------
(* Calls                                                                   *)

Returned(value) == [status |-> "ok", value |-> value]
Raised(error) == [status |-> "error", value |-> error]

Frame == UNCHANGED <<emb, enc, barr, sarr, rarr>>

\* no prange loop is in progress
NoLoop == logliks_arr = <<>> /\ iter = <<>> /\ order = <<>>
Atomic == UNCHANGED <<logliks_arr, iter, order>>

MscArray ==
    /\ call' = [op |-> "_get_msc_loglik_from_embedding_array"]
    /\ ret' = Returned(_get_msc_loglik_from_embedding_array(emb))
    /\ provider' = NoProvider
    /\ Frame
    /\ Atomic

Msc ==
    /\ call' = [op |-> "_get_msc_loglik_from_embedding"]
    /\ ret' = Returned(_get_msc_loglik_from_embedding(emb))
    /\ provider' = NoProvider
    /\ Frame
    /\ Atomic

\* population-size vectors a caller proposes
PopVecs == UNION {[1..n -> NeVals] : n \in 0..MaxRows}

UpdateNeffs(popsizes) ==
    /\ call' = [op |-> "_update_neffs", popsizes |-> popsizes]
    /\ emb' = _update_neffs(emb, popsizes)
    /\ ret' = Returned(None)
    /\ provider' = NoProvider
    /\ UNCHANGED <<enc, barr, sarr, rarr>>
    /\ Atomic

Update == \E popsizes \in PopVecs : UpdateNeffs(popsizes)

InitMsc ==
    /\ BuiltEmbedding
    /\ enc = [g \in DOMAIN emb |-> g]
    /\ barr = [g \in DOMAIN emb |-> 1]
    /\ sarr = [g \in DOMAIN emb |-> 1]
    /\ rarr = [g \in DOMAIN emb |-> 1]
    /\ call = NoCall
    /\ provider = NoProvider
    /\ ret = NoReturn
    /\ NoLoop

NextMsc == Update \/ MscArray \/ Msc

SpecMsc == InitMsc /\ [][NextMsc]_vars

----------------------------------------------------------------------------
(* The waiting-distance calls                                              *)

RecombRates == {1, 2}
EventTypes == {0 - 1, 0, 1, 2, 3}
LengthVals == {0, 2}
SumLens == {2, 3}
BranchLens == {1, 2}

\* lengths arrays of one to MaxTrees observations
LengthArrays == UNION {[1..n -> LengthVals] : n \in 1..MaxTrees}

\* idxs arguments: None, or a non-empty increasing index array into n genealogies
IdxArgs(n) ==
    {NoIdxs} \cup
    {Idxs(v) : v \in {w \in UNION {[1..m -> 0..(n - 1)] : m \in 1..n} :
                          \A i \in 1..(Len(w) - 1) : w[i] < w[i + 1]}}

\* get_ms_smc_loglik_from_embedding(embedding, recombination_rate, lengths, event_type, idxs)
SmcFromEmbedding(recombination_rate, lengths, event_type, idxs) ==
    LET p == ProviderCall(emb, enc, barr, sarr, rarr,
                          recombination_rate, event_type, idxs)
    IN  /\ call' = [op |-> "get_ms_smc_loglik_from_embedding",
                    recombination_rate |-> recombination_rate,
                    lengths |-> lengths, event_type |-> event_type, idxs |-> idxs]
        /\ provider' = p
        /\ ret' = NegSumLogpdf(p.rates, lengths)
        /\ Frame
        /\ Atomic

\* get_ms_smc_loglik(species_tree, genealogies, imap, recombination_rate,
\* lengths, event_type, idxs), the embedding of the genealogies being emb
SmcLoglik(recombination_rate, lengths, event_type, idxs) ==
    LET p == ProviderCall(emb, enc, barr, sarr, rarr,
                          recombination_rate, event_type, idxs)
        ok == SameSize(lengths, Ntrees(emb))
    IN  /\ call' = [op |-> "get_ms_smc_loglik",
                    recombination_rate |-> recombination_rate,
                    lengths |-> lengths, event_type |-> event_type, idxs |-> idxs]
        /\ provider' = IF ok THEN p ELSE NoProvider
        /\ ret' = IF ok THEN NegSumLogpdf(p.rates, lengths)
                  ELSE Raised("AssertionError")
        /\ Frame
        /\ Atomic

\* the caller's arguments, drawn with the initial state
CallSmcFromEmbedding ==
    SmcFromEmbedding(call.recombination_rate, call.lengths, call.event_type, call.idxs)

CallSmcLoglik ==
    SmcLoglik(call.recombination_rate, call.lengths, call.event_type, call.idxs)

\* an embedding of n genealogies with its auxiliary arrays, and the arguments
\* of the calls to come
InitSmc ==
    /\ \E n \in 1..MaxTrees :
         /\ emb = Embedding(n, 2, <<0, 0>>, 1, 1, Dists(n, 2, 0..(n - 1), <<>>))
         /\ enc = [g \in 0..(n - 1) |-> g]
         /\ sarr \in [0..(n - 1) -> SumLens]
         /\ barr \in [0..(n - 1) -> BranchLens]
         /\ rarr = [g \in 0..(n - 1) |-> 1]
         /\ \E r \in RecombRates, lengths \in LengthArrays, e \in EventTypes :
            \E idxs \in IdxArgs(n) :
                call = [op |-> "none", recombination_rate |-> r,
                        lengths |-> lengths, event_type |-> e, idxs |-> idxs]
    /\ provider = NoProvider
    /\ ret = NoReturn
    /\ NoLoop

NextSmc == CallSmcFromEmbedding \/ CallSmcLoglik

SpecSmc == InitSmc /\ [][NextSmc]_vars

----------------------------------------------------------------------------
(* The prange loop of the MSC kernels, iteration by iteration.  numba      *)
(* hands the iterations of "for gidx in prange(ntrees)" to its threads in  *)
(* any order and any grouping; the variables assigned in the body (garr,   *)
(* loglik, iarr, rate, prob) are private to the iteration, the array       *)
(* logliks is shared, and logliks.sum() runs after the loop has joined.    *)
(* No update of the array runs while the loop is in progress.              *)

Running == [status |-> "running", value |-> None]

\* the kernel of the call in progress
LoopKernel ==
    IF call.op = "_get_msc_loglik_from_embedding_array" THEN "array" ELSE "embedding"

\* garr = embedding[gidx]
IterRows(embedding, gidx) == embedding[gidx]

\* every iteration stores to the first slot
SlotShared(gidx) == 0

\* the slot of logliks iteration gidx stores to: logliks[gidx] = loglik
Slot(gidx) == gidx

\* entry of the kernel up to the loop: logliks = np.zeros(ntrees)
EnterLoop(op) ==
    /\ ret.status # "running"
    /\ call' = [op |-> op]
    /\ ret' = Running
    /\ provider' = NoProvider
    /\ logliks_arr' = [gidx \in 0..(Ntrees(emb) - 1) |-> Fin(0)]
    /\ iter' = [gidx \in 0..(Ntrees(emb) - 1) |-> [pc |-> "todo", loglik |-> Fin(0)]]
    /\ order' = <<>>
    /\ Frame

EnterArray == EnterLoop("_get_msc_loglik_from_embedding_array")

EnterEmbedding == EnterLoop("_get_msc_loglik_from_embedding")

\* a thread runs the body of iteration gidx up to the store: loglik = 0.,
\* then the loop over the species intervals on the rows of garr
IterBody(gidx) ==
    /\ ret.status = "running"
    /\ iter[gidx].pc = "todo"
    /\ iter' = [iter EXCEPT ![gidx] =
                   [pc |-> "computed",
                    loglik |-> GenealogyLoglik(LoopKernel, IterRows(emb, gidx),
                                               Nspecies(emb) + 1)]]
    /\ UNCHANGED <<call, provider, ret, logliks_arr, order>>
    /\ Frame

\* the thread stores the iteration's result: logliks[gidx] = loglik
IterStore(gidx) ==
    /\ ret.status = "running"
    /\ iter[gidx].pc = "computed"
    /\ logliks_arr' = [logliks_arr EXCEPT ![Slot(gidx)] = iter[gidx].loglik]
    /\ iter' = [iter EXCEPT ![gidx].pc = "done"]
    /\ order' = Append(order, gidx)
    /\ UNCHANGED <<call, provider, ret>>
    /\ Frame

Body == \E gidx \in DOMAIN iter : IterBody(gidx)

Store == \E gidx \in DOMAIN iter : IterStore(gidx)

\* the loop has joined: return -logliks.sum()
Reduce ==
    /\ ret.status = "running"
    /\ \A gidx \in DOMAIN iter : iter[gidx].pc = "done"
    /\ ret' = Returned(XNeg(SumLogliks(logliks_arr, Ntrees(emb))))
    /\ UNCHANGED <<call, provider, logliks_arr, iter, order>>
    /\ Frame

InitPar == InitMsc

NextPar == EnterArray \/ EnterEmbedding \/ Body \/ Store \/ Reduce

SpecPar == InitPar /\ [][NextPar]_vars

----------------------------------------------------------------------------
(* The parameter sweep of the smc module: an update of the Ne column, then *)
(* the MSC kernel and the waiting-distance kernel on the same embedding,   *)
(* in any order and any number of times.                                   *)

\* rows of one genealogy of the swept embedding, columns 2 and 4
SweepPattern == <<0, 0, 1>>
SweepLast == 2

\* the popsizes vectors of a sweep: one value per species interval
SweepVecs == [1..(Nspecies(emb) + 1) -> NeVals]

SweepUpdate == \E popsizes \in SweepVecs : UpdateNeffs(popsizes)

\* the waiting distances handed to the kernel: one to MaxTrees + 1 observations
\* of 2 sites, so as many as the genealogies, fewer, or more
SweepLengths == {[i \in 1..n |-> 2] : n \in 1..(MaxTrees + 1)}

\* get_ms_smc_loglik_from_embedding(G, RECOMB, glens, event_type=...)
SweepSmc ==
    \E r \in RecombRates, lengths \in SweepLengths, e \in EventTypes :
        SmcFromEmbedding(r, lengths, e, NoIdxs)

\* an embedding of n genealogies of three rows, some with an unbounded
\* terminal row, at most one row long, and its auxiliary arrays
InitSweep ==
    /\ \E n \in 1..MaxTrees :
       \E unbounded \in SUBSET (0..(n - 1)), long \in LongRows(n, 3) :
         /\ emb = Embedding(n, 3, SweepPattern, SweepLast, 1,
                            Dists(n, 3, unbounded, long))
         /\ enc = [g \in 0..(n - 1) |-> g]
         /\ barr = [g \in 0..(n - 1) |-> 1]
         /\ sarr = [g \in 0..(n - 1) |-> 2]
         /\ rarr = [g \in 0..(n - 1) |-> 1]
    /\ call = NoCall
    /\ provider = NoProvider
    /\ ret = NoReturn
    /\ NoLoop

NextSweep == SweepUpdate \/ MscArray \/ Msc \/ SweepSmc

SpecSweep == InitSweep /\ [][NextSweep]_vars

----------------------------------------------------------------------------
(* Properties of the MSC kernels (checked under SpecMsc)                   *)

MscKernels == {"_get_msc_loglik_from_embedding_array", "_get_msc_loglik_from_embedding"}

\* the kernel a call name stands for
KernelOf(op) == IF op = "_get_msc_loglik_from_embedding_array" THEN "array" ELSE "embedding"

\* the species intervals of the array
Intervals(array) == 0..Nspecies(array)

\* the probability the kernel computes for interval sval of genealogy g
ProbOf(kernel, array, g, sval) ==
    LET iarr == SelectInterval(array[g], sval)
    IN  IntervalProb(Rate(kernel, iarr), iarr)

\* some interval of some genealogy has a computed probability <= 0
Degenerate(kernel, array) ==
    \E g \in DOMAIN array : \E sval \in Intervals(array) :
        ~GtZero(ProbOf(kernel, array, g, sval))

\* C1: whenever the computed probability of at least one species interval of
\* at least one genealogy is <= 0, the MSC kernel raises no error and returns
\* +infinity as the total negative log-likelihood.
C1_DegenerateReturnsPosInf ==
    (call.op \in MscKernels /\ Degenerate(KernelOf(call.op), emb))
        => ret = Returned(PosInf)

\* the array with column 3 multiplied by 2
Doubled(array) ==
    [g \in DOMAIN array |->
        [i \in DOMAIN array[g] |-> [array[g][i] EXCEPT !.f3 = 2 * @]]]

\* C4: the Ne-convention kernel on an embedding with column 3 = v returns what
\* the 2Ne-convention kernel returns on the same embedding with column 3 = 2v.
C4_ConventionEquivalence ==
    call.op = "_get_msc_loglik_from_embedding_array"
        => ret = Returned(_get_msc_loglik_from_embedding(Doubled(emb)))

\* C4 witness: the Ne-convention kernel returned a finite value on an array
\* whose species intervals carry different Ne values.
C4_Witness ==
    /\ call.op = "_get_msc_loglik_from_embedding_array"
    /\ ret.status = "ok" /\ ret.value.k = "fin"
    /\ \E i, j \in DOMAIN emb[0] : emb[0][i].f3 # emb[0][j].f3

\* the logarithm (in thousandths) of rate * exp(-rate * npairs * dist) summed
\* over the first m rows of a group whose rate is 1 / den
RECURSIVE LogCoalTerms(_, _, _)
LogCoalTerms(den, iarr, m) ==
    IF m = 0 THEN 0
    ELSE LogCoalTerms(den, iarr, m - 1)
         - LnMilli(den) - ((1000 * Npairs(iarr[m].f4) * iarr[m].f5.v) \div den)

\* the interval probability as claim C7 words it: k - 1 factors
\* rate * exp(-rate * npairs_i * d_i), then exp(-rate * npairs_k * d_k) when d_k
\* is finite and nothing when it is unbounded; as a float64, 0 when too small
ClosedFormProb(den, iarr) ==
    LET k == Len(iarr)
        last == IF isinf(iarr[k].f5) THEN 0
                ELSE (1000 * Npairs(iarr[k].f4) * iarr[k].f5.v) \div den
    IN  Pos(LogCoalTerms(den, iarr, k - 1) - last)

\* 1 / rate of the two conventions
Denominator(kernel, iarr) == IF kernel = "array" THEN 2 * iarr[1].f3 ELSE iarr[1].f3

\* the total a kernel returns when its interval probabilities are the closed form
RECURSIVE ClosedFormGenealogy(_, _, _)
ClosedFormGenealogy(kernel, garr, nintervals) ==
    IF nintervals = 0 THEN Fin(0)
    ELSE LET iarr == SelectInterval(garr, nintervals - 1)
         IN  XAdd(ClosedFormGenealogy(kernel, garr, nintervals - 1),
                  StoreLoglik(ClosedFormProb(Denominator(kernel, iarr), iarr)))

RECURSIVE ClosedFormTotal(_, _, _)
ClosedFormTotal(kernel, array, n) ==
    IF n = 0 THEN Fin(0)
    ELSE XAdd(ClosedFormTotal(kernel, array, n - 1),
              ClosedFormGenealogy(kernel, array[n - 1], Nspecies(array) + 1))

\* C7: for every genealogy and species interval with rows 1..k, the interval
\* probability of either kernel is the product over rows 1..k-1 of
\* rate * exp(-rate * npairs_i * d_i), times exp(-rate * npairs_k * d_k) when
\* d_k is finite and times 1 when d_k is unbounded; a kernel call returns the
\* negated sum of the logarithms of these probabilities.
C7_IntervalProbability ==
    /\ \A kernel \in {"array", "embedding"} :
       \A g \in DOMAIN emb : \A sval \in Intervals(emb) :
           LET iarr == SelectInterval(emb[g], sval)
           IN  ProbOf(kernel, emb, g, sval)
                   = ClosedFormProb(Denominator(kernel, iarr), iarr)
    /\ call.op \in MscKernels
          => ret = Returned(XNeg(ClosedFormTotal(KernelOf(call.op), emb, Ntrees(emb))))

\* C7 witness: a kernel returned a finite value on an array in which one
\* interval has three rows, one has a single finite row with several
\* lineages, and a terminal row is unbounded.
C7_Witness ==
    /\ call.op \in MscKernels
    /\ ret.status = "ok" /\ ret.value.k = "fin" /\ ret.value.v # 0
    /\ Ntrees(emb) >= 2
    /\ \E g \in DOMAIN emb : isinf(emb[g][Len(emb[g])].f5)
    /\ \E g \in DOMAIN emb :
          /\ ~isinf(emb[g][Len(emb[g])].f5)
          /\ emb[g][Len(emb[g])].f4 >= 2
          /\ Len(SelectInterval(emb[g], 0)) >= 2

\* the rows of the array, as <<genealogy, row>> pairs
Cells(array) == UNION {{<<g, i>> : i \in DOMAIN array[g]} : g \in DOMAIN array}

\* the branch indices a popsizes vector addresses
Branches(popsizes) == 0..(Len(popsizes) - 1)

----------------------------------------------------------------------------
(* Properties of the waiting-distance kernel (checked under SpecSmc)       *)

FromEmbedding == call.op = "get_ms_smc_loglik_from_embedding"

\* C2: whenever the number of waiting distances differs from the number of
\* rates the selected provider produced, get_ms_smc_loglik_from_embedding ends
\* in a shape-mismatch error and returns no likelihood value.
C2_ShapeMismatchRejected ==
    (FromEmbedding /\ Len(call.lengths) # Len(provider.rates))
        => ret.status = "error"

\* C3: event_type 0 selects the any-recombination provider, 1 the tree-change
\* provider, 2 the topology-change provider, and every other selector is
\* rejected with an invalid-argument error without calling a provider.
C3_EventTypeDispatch ==
    FromEmbedding =>
        /\ call.event_type = 0 => provider.name = "get_recomb_event_lambdas"
        /\ call.event_type = 1 => provider.name = "get_tree_changed_lambdas"
        /\ call.event_type = 2 => provider.name = "get_topo_changed_lambdas"
        /\ call.event_type \notin {0, 1, 2}
              => ret.status = "error" /\ provider = NoProvider

\* the rate of genealogy g for the event type of the provider
RateOfGenealogy(name, g) ==
    IF name = "get_recomb_event_lambdas" THEN call.recombination_rate * sarr[g]
    ELSE IF name = "get_tree_changed_lambdas" THEN call.recombination_rate * barr[g]
    ELSE call.recombination_rate * rarr[g]

\* C5: for each event type and every index subset idxs, the provider returns
\* one rate per selected genealogy: the rates array has length |idxs| and its
\* k-th entry is the rate of genealogy idxs[k] (for event_type 0,
\* recombination_rate * total_branch_length[idxs[k]]).
C5_OneRatePerSelected ==
    (FromEmbedding /\ provider.name # "none") =>
        /\ Len(provider.rates) = Len(provider.idxs)
        /\ \A k \in 1..Len(provider.idxs) :
              provider.rates[k] = RateOfGenealogy(provider.name, provider.idxs[k])

\* C6: get_ms_smc_loglik called with a subset idxs and as many lengths as idxs
\* has entries (fewer than there are genealogies) is evaluated to a likelihood
\* value; with idxs omitted the required length is the genealogy count.
C6_SubsetLengthsAccepted ==
    call.op = "get_ms_smc_loglik" =>
        /\ (call.idxs.given /\ Len(call.lengths) = Len(call.idxs.v))
              => ret.status = "ok"
        /\ (~call.idxs.given /\ Len(call.lengths) = Ntrees(emb))
              => ret.status = "ok"

\* -(log(r) - r * l) in thousandths
NegLogDensity(r, l) == 0 - (LnMilli(r) - 1000 * r * l)

RECURSIVE SumNegLogDensity(_, _, _)
SumNegLogDensity(rates, lengths, n) ==
    IF n = 0 THEN 0
    ELSE SumNegLogDensity(rates, lengths, n - 1) + NegLogDensity(rates[n], lengths[n])

\* C10: for rates r_1..r_N > 0 and lengths l_1..l_N the kernel returns the
\* negative of the sum of log(r_i) - r_i * l_i; for N genealogies with the same
\* (r, l) that is N times what it returns for one genealogy with that (r, l).
C10_WaitingDistanceReduction ==
    (FromEmbedding /\ Len(call.lengths) = Len(provider.rates)) =>
        LET rates == provider.rates
            lengths == call.lengths
            N == Len(rates)
        IN  /\ ret = Returned(Fin(SumNegLogDensity(rates, lengths, N)))
            /\ (/\ N >= 1
                /\ \A i \in 1..N : rates[i] = rates[1] /\ lengths[i] = lengths[1])
                  => /\ NegSumLogpdf(<<rates[1]>>, <<lengths[1]>>).status = "ok"
                     /\ ret.value.v
                          = N * NegSumLogpdf(<<rates[1]>>, <<lengths[1]>>).value.v

\* C10 witness: the kernel returned for several genealogies of the same
\* rate and the same positive length.
C10_Witness ==
    /\ FromEmbedding
    /\ ret.status = "ok"
    /\ Len(provider.rates) >= 2
    /\ Len(call.lengths) = Len(provider.rates)
    /\ \A i \in 1..Len(provider.rates) :
          /\ provider.rates[i] = provider.rates[1]
          /\ call.lengths[i] = call.lengths[1]
    /\ call.lengths[1] > 0
    /\ provider.rates[1] > 1

----------------------------------------------------------------------------
(* Properties of the prange loop (checked under SpecPar)                   *)

\* the per-genealogy results of sequential evaluation in index order
SequentialLogliks(kernel, array) ==
    [gidx \in 0..(Ntrees(array) - 1) |->
        GenealogyLoglik(kernel, array[gidx], Nspecies(array) + 1)]

\* C11: whatever the order in which the iterations of the loop run and store,
\* a slot of logliks holds zero until its own iteration has stored and the
\* sequential result of its genealogy from then on, so at the return the
\* vector of results and the total are those of sequential evaluation
C11_RaceFreeReduction ==
    LET seq == SequentialLogliks(LoopKernel, emb)
    IN  /\ ret.status = "running" =>
              \A gidx \in DOMAIN emb :
                  logliks_arr[gidx] = IF iter[gidx].pc = "done" THEN seq[gidx] ELSE Fin(0)
        /\ (ret.status = "ok" /\ call.op \in MscKernels) =>
              /\ logliks_arr = seq
              /\ ret.value = MscLoglik(LoopKernel, emb)

\* a call returned whose iterations stored against the index order, on
\* genealogies with different results
C11_Witness ==
    /\ ret.status = "ok"
    /\ call.op \in MscKernels
    /\ order = <<1, 0>>
    /\ logliks_arr[0] # logliks_arr[1]
    /\ logliks_arr[1] # Fin(0)

----------------------------------------------------------------------------
(* Properties of the kernels in a sweep (checked under SpecSweep)          *)

Kernels == MscKernels \cup {"get_ms_smc_loglik_from_embedding"}

\* C12: a call of one of the three kernels, whatever it returns or raises,
\* leaves the embedding array and the four auxiliary arrays as they were;
\* the rate provider of the waiting-distance kernel is handed the arrays the
\* embedding holds; and a kernel call that repeats the call just before it
\* returns what that call returned
C12_KernelsLeaveInputs ==
    [][call'.op \in Kernels =>
          /\ emb' = emb /\ enc' = enc /\ barr' = barr /\ sarr' = sarr /\ rarr' = rarr
          /\ call'.op = "get_ms_smc_loglik_from_embedding" =>
                /\ provider'.emb = emb /\ provider'.enc = enc
                /\ provider'.barr = barr /\ provider'.sarr = sarr
                /\ provider'.rarr = rarr
          /\ call' = call => ret' = ret]_vars

\* the waiting-distance kernel failed on an array an update has written to
C12_Witness ==
    /\ FromEmbedding
    /\ ret.status = "error"
    /\ provider.emb = emb
    /\ \E c \in Cells(emb) : emb[c[1]][c[2]].f3 = 2

----------------------------------------------------------------------------
(* Repeated updates (checked under SpecMsc)                                *)

\* the array with column 3 of every row set from popsizes by the row's column 2
Given(array, popsizes) ==
    [g \in DOMAIN array |->
        [i \in DOMAIN array[g] |->
            [array[g][i] EXCEPT !.f3 = popsizes[array[g][i].f2 + 1]]]]

\* popsizes has one value per species interval of the array
FullLength(array, popsizes) == Len(popsizes) = Nspecies(array) + 1

====
